---------------------------- MODULE Spec2Model ----------------------------
(***************************************************************************)
(* A model of the crawl pipeline of hamzaaldabe/crawler:                    *)
(*   app/scheduler.py      the recurring job crawl_pending_urls            *)
(*   app/routes/crawler.py the blocking on-demand trigger CrawlPending     *)
(*   app/routes/urls.py    the threaded on-demand trigger CrawlPendingURLs *)
(*   app/crawler.py        Crawler.crawl_url, save_asset, process_with_ocr *)
(*   app/ocr.py            OCRProcessor.process_image / process_pdf        *)
(*                                                                         *)
(* The shared state is the record store (URL.status, Asset rows and their  *)
(* OCRResult rows) and the object store.  Every run-loop invocation is a   *)
(* thread with a database session of its own; a step of the model is the   *)
(* code between two accesses of the shared stores.  External calls         *)
(* (render, download, recognition, object store, commit) return one of     *)
(* their possible outcomes, chosen nondeterministically.  The content of a *)
(* rendered page is revealed reference by reference as the loops of        *)
(* crawl_url reach it.                                                      *)
(*                                                                         *)
(* Spec is the system: the scheduled job and the on-demand triggers over   *)
(* the shared stores.  CrawlSpec is one call of crawl_url in detail: the   *)
(* attempts of fetch_dom with its sessions, timeouts and waits, and the    *)
(* loops of crawl_url over the elements of the page it got.                *)
(***************************************************************************)
EXTENDS Naturals, Sequences, FiniteSets

\* ------------------------------------------------------------- bounds
NumPages == 2    \* URL rows in the store
MaxRefs == 2     \* matching references found in one rendered page
MaxAssets == 2   \* Asset rows the store takes in a behaviour (later inserts fail)
MaxRuns == 2     \* run-loop invocations (scheduled or on-demand) and OCR
                 \* requests in a behaviour
MaxDue == 2      \* run times that may be due when the scheduler thread wakes up
MaxFaults == 2   \* failures of external calls (render, commit, download,
                 \* recognition, object store) and raising fragments in a behaviour
MaxElems == 2    \* elements of a rendered page in the model of one crawl_url call
MaxOutputs == 2  \* output objects the batch job leaves for one PDF
MaxPages == 2    \* pages in the annotation of an image

\* -------------------------------------------------- program constants
max_instances == 1   \* job_defaults['max_instances']

coalesce == TRUE     \* job_defaults['coalesce']

max_retries == 3         \* Crawler.max_retries
page_load_timeout == 30  \* Crawler.page_load_timeout, seconds
script_timeout == 30     \* Crawler.script_timeout, seconds

Pages == 1..NumPages
RunIds == 1..MaxRuns
AssetIds == 1..MaxAssets

\* URL.status values the pipeline uses (models.py: default 'pending').
UrlPending == "pending"

UrlTerminal == {"completed", "failed"}

\* Asset.status values (models.py: default 'pending'); "absent": no such row.
AssetTerminal == {"processed", "failed"}

VARIABLES
  urlStatus,    \* [Pages -> status]: URL.status as committed in the store
  asset,        \* [AssetIds -> [status, rows, page, typ, calls]]: the Asset
                \* rows, the OCRResult rows of each and the page it belongs to
  blobs,        \* [AssetIds -> SUBSET {"pdf","out"}]: the objects in the bucket
                \* (pdfs/<id>.pdf, ocr_results/<id>/...)
  run,          \* [RunIds -> record]: the run-loop invocations
  ocr,          \* [RunIds -> record]: the OCR call run r is inside, with its log
  queue,        \* run times handed to the executor and not yet executed
  faults,       \* the failures so far (bounded by MaxFaults)
  cu,           \* one call of Crawler.crawl_url in detail: the locals of
                \* fetch_dom, the page it returns, the rows save_asset
                \* inserted and the OCR calls made (specification CrawlSpec)
  ocrResult     \* one OCR call from the answer of the recognition service to
                \* the OCRResult it persists (specification ResultSpec)

vars == <<urlStatus, asset, blobs, run, ocr, queue, faults, cu, ocrResult>>

\* ------------------------------------------------------------ helpers
Last(s) == s[Len(s)]

\* URL.query.filter_by(status='pending').all(): the pending rows, by id.
PendingUrls(st) == SelectSeq([i \in 1..NumPages |-> i], LAMBDA p : st[p] = UrlPending)

\* Crawler(app) builds an OCRProcessor, Crawler() has none (ocr_processor is
\* None): the scheduler and the urls.py thread pass the app, CrawlPending.post
\* does not.
HasOcr(kind) == kind \in {"sched", "thread"}

\* pc: idle (id not used yet), spawned (urls.py: thread started), fetch (about
\* to call crawl_url for sel[idx]), extract (in the loops of crawl_url, j-1
\* references handled), ocr (inside process_with_ocr), done.  pdfs: the PDF
\* loop, the last one, has been reached.  resp: the HTTP response of an
\* on-demand trigger.  fired: the due run times the scheduler found when it
\* started the run (kept while the run is in flight).
IdleRun == [kind |-> "none", pc |-> "idle", sel |-> <<>>, idx |-> 0,
            j |-> 0, pdfs |-> FALSE, resp |-> "none", fired |-> 0]

\* The OCR call and its log: the asset, the status writes attempted (tried)
\* and stored (wrote), the outcomes of the download and of the staging upload,
\* the numbers of downloads,
\* recognition requests, uploads and reads of the batch outputs, the
\* OCRResult rows it added, what it returned and the error that ended it.
\* job: what became of the batch job (done within the ceiling, timeout, or
\* transient: the submit raised).
IdleOcr == [pc |-> "idle", aid |-> 0, typ |-> "none", tried |-> <<>>, wrote |-> <<>>,
            dl |-> "none", up |-> "none", nDl |-> 0, nRecog |-> 0, nUp |-> 0, nRd |-> 0, job |-> "none", rows |-> 0,
            ret |-> "none", err |-> "none"]

\* No row with this id.  typ: the asset_type column; rows: the OCRResult
\* rows of the asset in the order of their ids, each named by the call (run)
\* that produced its content; calls: the OCR calls that have begun to work
\* on the row.
NoAsset == [status |-> "absent", rows |-> <<>>, page |-> 0, typ |-> "none", calls |-> 0]

Active(r) == run[r].pc \notin {"idle", "done"}

\* The page run r is crawling (0: none).
CurPage(r) == IF run[r].pc \in {"fetch", "extract", "ocr"} THEN run[r].sel[run[r].idx] ELSE 0

\* Asset ids are handed out in order (autoincrement; no row is ever deleted).
NextAssetId == Cardinality({ a \in AssetIds : asset[a].status # "absent" }) + 1

\* Run ids are handed out in order.
FreeRun(r) == /\ run[r].pc = "idle"
              /\ \A q \in RunIds : q < r => run[q].pc # "idle"

\* executor._instances['crawl_pending_urls']: the scheduled runs in flight.
SchedInstances == Cardinality({ r \in RunIds : run[r].kind = "sched" /\ Active(r) })

\* n more external calls fail in this step.
Charge(n) == /\ faults + n <= MaxFaults
             /\ faults' = faults + n

F(ok) == IF ok THEN 0 ELSE 1

\* crawl_url not called.  attempt, driver, made, open, budgets, waits, excs and
\* after are the locals and the log of fetch_dom; html is what it returned;
\* k is the position in the references of the page; saved, lost and calls are
\* the positions save_asset committed, failed on, and OCR was called for;
\* stored is the block whose commit stored the status ("try", "except");
\* descs are the (absolute URL, type) pairs save_asset was called with, prev
\* those of the crawl before when the page is crawled a second time (round 2).
IdleCu == [pc |-> "idle", hasOcr |-> FALSE, attempt |-> 0, driver |-> 0, made |-> 0,
           open |-> {}, budgets |-> <<>>, waits |-> <<>>, excs |-> <<>>,
           after |-> "none", ret |-> "none", html |-> <<>>, k |-> 0,
           saved |-> <<>>, lost |-> <<>>, calls |-> <<>>,
           status |-> "pending", stored |-> "none", raised |-> FALSE,
           descs |-> <<>>, prev |-> <<>>, round |-> 1]

\* No OCR call.  typ: the entry point; outs: the objects list_blobs returns
\* under ocr_results/<asset_id>/, in listing order; text and pages: the
\* full_text_annotation of an image; rows: the OCRResult rows the call has
\* committed; status: the asset status the call has stored.
IdleRes == [pc |-> "idle", typ |-> "none", outs |-> <<>>, text |-> <<>>,
            pages |-> <<>>, rows |-> <<>>, status |-> "processing"]

Init ==
  /\ urlStatus = [p \in Pages |-> UrlPending]
  /\ asset = [a \in AssetIds |-> NoAsset]
  /\ blobs = [a \in AssetIds |-> {}]
  /\ run = [r \in RunIds |-> IdleRun]
  /\ ocr = [r \in RunIds |-> IdleOcr]
  /\ queue = 0
  /\ faults = 0
  /\ cu = IdleCu
  /\ ocrResult = IdleRes


\* ------------------------------------------------- scheduler (APScheduler)
\* The run times one wake-up of the scheduler hands to the executor out of n
\* that are due: with coalesce only the latest.
RunTimes(n) == IF coalesce THEN 1 ELSE n

\* An executor without a limit of running instances.
NoInstanceLimit == FALSE

\* executor.submit_job refuses a job that already has max_instances running.
MaxInstancesReached == SchedInstances >= max_instances

\* A run-loop invocation right after its query for the pending URLs.
Selected(kind, n) ==
  LET sel == PendingUrls(urlStatus) IN
  [IdleRun EXCEPT !.kind = kind, !.sel = sel,
                  !.fired = IF sel = <<>> THEN 0 ELSE n,
                  !.idx = IF sel = <<>> THEN 0 ELSE 1,
                  !.pc = IF sel = <<>> THEN "done" ELSE "fetch"]

\* The scheduler thread wakes up with run times of the interval trigger due
\* while the job is running: the executor raises MaxInstancesReachedError and
\* the run times are dropped.
SchedSkip ==
  /\ MaxInstancesReached
  /\ UNCHANGED vars

\* It wakes up with the job not running, and the run time it hands over is
\* older than misfire_grace_time: the run is missed.
SchedMissed ==
  /\ ~MaxInstancesReached
  /\ UNCHANGED vars

\* It wakes up with n run times due, in time: the job starts and
\* crawl_pending_urls queries the pending URLs.  Run times handed over beyond
\* the one that starts now wait in the executor.
SchedStart(r) ==
  /\ ~MaxInstancesReached
  /\ FreeRun(r)
  /\ \E n \in 1..MaxDue :
       /\ run' = [run EXCEPT ![r] = Selected("sched", n)]
       /\ queue' = queue + RunTimes(n) - 1
  /\ UNCHANGED <<ocrResult, cu, urlStatus, asset, blobs, ocr, faults>>


\* ------------------------------------------------- on-demand triggers
\* CrawlPending.post (routes/crawler.py) queries the pending URLs and crawls
\* them in the request; with none pending it answers at once.
PostSync(r) ==
  /\ FreeRun(r)
  /\ LET s == Selected("sync", 0) IN
     run' = [run EXCEPT ![r] =
               IF s.sel = <<>> THEN [s EXCEPT !.resp = "200-none"] ELSE s]
  /\ UNCHANGED <<ocrResult, cu, urlStatus, asset, blobs, ocr, queue, faults>>

\* A CrawlPendingURLs.post that runs crawl_background in the request
\* (thread.run() for thread.start()) and answers after it.
PostThreadInline(r) ==
  /\ FreeRun(r)
  /\ run' = [run EXCEPT ![r] = Selected("thread", 0)]
  /\ UNCHANGED <<ocrResult, cu, urlStatus, asset, blobs, ocr, queue, faults>>

\* CrawlPendingURLs.post (routes/urls.py) queries the pending URLs, starts the
\* thread crawl_background and answers 202 with their number.
PostThread(r) ==
  /\ FreeRun(r)
  /\ LET s == Selected("thread", 0) IN
     run' = [run EXCEPT ![r] =
               IF s.sel = <<>> THEN [s EXCEPT !.resp = "200-none"]
               ELSE [s EXCEPT !.pc = "spawned", !.resp = "202"]]
  /\ UNCHANGED <<ocrResult, cu, urlStatus, asset, blobs, ocr, queue, faults>>

\* crawl_background starts with `with current_app.app_context()`: the new
\* thread has no application context, current_app is unbound there and the
\* access raises RuntimeError before any URL is touched; the thread ends.
ThreadRun(r) ==
  /\ run[r].pc = "spawned"
  /\ run' = [run EXCEPT ![r].pc = "done"]
  /\ UNCHANGED <<ocrResult, cu, urlStatus, asset, blobs, ocr, queue, faults>>

\* ProcessAssetOCR.post (routes/ocr.py): the asset is looked up (404 when
\* there is none), an OCRProcessor is built and process_image or process_pdf
\* is called by the asset's type, whatever the status of the asset and the
\* results it already has.
PostOcr(r) ==
  /\ FreeRun(r)
  /\ \E a \in AssetIds :
       /\ asset[a].status # "absent"
       /\ run' = [run EXCEPT ![r] = [IdleRun EXCEPT !.kind = "ocrpost", !.pc = "request"]]
       /\ ocr' = [ocr EXCEPT ![r] = [IdleOcr EXCEPT !.pc = "entry", !.aid = a,
                                       !.typ = asset[a].typ]]
  /\ UNCHANGED <<ocrResult, cu, urlStatus, asset, blobs, queue, faults>>


\* ------------------------------------------------- Crawler.crawl_url
\* A status write that updates every pending row along with the crawled one.
WriteStatusAll(st, p, v) ==
  IF v = "none" THEN st
  ELSE [q \in Pages |-> IF q = p \/ st[q] = UrlPending THEN v ELSE st[q]]

\* url_entry.status = v; db.session.commit(): one row of URL is updated
\* ("none": the commit failed and nothing was written).
WriteStatus(st, p, v) == IF v = "none" THEN st ELSE [st EXCEPT ![p] = v]

\* A crawl_url without the `if not html` check: the loops run over nothing
\* and the page is completed.
CrawlUrlEndNoCheck(body, c1, c2) ==
  IF body # "raised" /\ c1 THEN [write |-> "completed", raised |-> FALSE]
  ELSE IF c2 THEN [write |-> "failed", raised |-> FALSE]
  ELSE [write |-> "none", raised |-> TRUE]

\* How crawl_url ends.  body is how its try block went: "nohtml" (fetch_dom
\* gave nothing), "completed" (every loop ran through) or "raised" (an
\* exception in a loop).  c1: the commit of the try block succeeds; c2: the
\* commit of the except block succeeds.  With both failing the exception of
\* the second commit leaves crawl_url.
CrawlUrlEnd(body, c1, c2) ==
  IF body # "raised" /\ c1
    THEN [write |-> IF body = "nohtml" THEN "failed" ELSE "completed", raised |-> FALSE]
    ELSE IF c2 THEN [write |-> "failed", raised |-> FALSE]
         ELSE [write |-> "none", raised |-> TRUE]

\* What the caller's loop does with it.  crawl_pending_urls and
\* crawl_background catch the exception, set 'failed' and commit (c3: that
\* commit succeeds); if it fails too the exception leaves the loop (the outer
\* except of the job logs it; the thread dies).  CrawlPending.post has no try:
\* the exception ends the request.
LoopEnd(kind, res, c3) ==
  IF ~res.raised THEN [write |-> res.write, abort |-> FALSE]
  ELSE IF kind = "sync" THEN [write |-> "none", abort |-> TRUE]
  ELSE IF c3 THEN [write |-> "failed", abort |-> FALSE]
  ELSE [write |-> "none", abort |-> TRUE]

\* A loop that ends after its first page, whatever is left of the selection.
AdvanceSkipping(rec, abort) ==
  [rec EXCEPT !.pc = "done", !.j = 0, !.pdfs = FALSE, !.fired = 0,
              !.idx = Len(rec.sel) + 1,
              !.resp = IF rec.kind = "sync" THEN "200" ELSE rec.resp]

\* The run after the crawl of its page idx: the next page, or the end of the
\* loop.  CrawlPending.post answers 200 after the loop, 500 on an exception.
Advance(rec, abort) ==
  IF abort
    THEN [rec EXCEPT !.pc = "done", !.j = 0, !.pdfs = FALSE, !.fired = 0,
                     !.resp = IF rec.kind = "sync" THEN "500" ELSE rec.resp]
    ELSE IF rec.idx = Len(rec.sel)
      THEN [rec EXCEPT !.pc = "done", !.j = 0, !.pdfs = FALSE, !.fired = 0,
                       !.idx = rec.idx + 1,
                       !.resp = IF rec.kind = "sync" THEN "200" ELSE rec.resp]
      ELSE [rec EXCEPT !.pc = "fetch", !.j = 0, !.pdfs = FALSE, !.idx = rec.idx + 1]

\* The end of crawl_url and of the loop body around it, after n failures in
\* the step so far.  A commit is reached only after the one before it failed
\* (the first is skipped when the try block raised; CrawlPending.post has no
\* third).
EndPage(r, body, n) ==
  \E c1 \in BOOLEAN, c2 \in BOOLEAN, c3 \in BOOLEAN :
    /\ body = "raised" => ~c1
    /\ c1 => c2
    /\ c2 => c3
    /\ (run[r].kind = "sync" /\ ~c2) => ~c3
    /\ Charge(n + (IF body # "raised" THEN F(c1) ELSE 0) + F(c2)
                 + (IF run[r].kind # "sync" THEN F(c3) ELSE 0))
    /\ LET res == LoopEnd(run[r].kind, CrawlUrlEnd(body, c1, c2), c3) IN
       /\ urlStatus' = WriteStatus(urlStatus, run[r].sel[run[r].idx], res.write)
       /\ run' = [run EXCEPT ![r] = Advance(run[r], res.abort)]

\* fetch_dom returns None (every attempt failed): status 'failed', return.
FetchFail(r) ==
  /\ run[r].pc = "fetch"
  /\ EndPage(r, "nohtml", 1)
  /\ UNCHANGED <<ocrResult, cu, asset, blobs, ocr, queue>>

\* fetch_dom returns the rendered HTML.
FetchOk(r) ==
  /\ run[r].pc = "fetch"
  /\ run' = [run EXCEPT ![r].pc = "extract", ![r].j = 1]
  /\ UNCHANGED <<ocrResult, cu, urlStatus, asset, blobs, ocr, queue, faults>>

\* An except block of crawl_url that undoes the crawl: the rows recorded for
\* the page are taken out of the store again.
ExtractRaiseRollingBack(r) ==
  /\ run[r].pc = "extract"
  /\ run[r].j <= MaxRefs
  /\ ~run[r].pdfs
  /\ EndPage(r, "raised", 1)
  /\ asset' = [a \in AssetIds |->
                 IF asset[a].page = run[r].sel[run[r].idx] THEN NoAsset ELSE asset[a]]
  /\ UNCHANGED <<ocrResult, cu, blobs, ocr, queue>>

\* The next reference is a fragment on which an image loop raises (an empty
\* srcset candidate: candidate.strip().split()[0] raises IndexError).
ExtractRaise(r) ==
  /\ run[r].pc = "extract"
  /\ run[r].j <= MaxRefs
  /\ ~run[r].pdfs
  /\ EndPage(r, "raised", 1)
  /\ UNCHANGED <<ocrResult, cu, asset, blobs, ocr, queue>>

\* A save_asset that also puts the rows the page already has back to pending.
NewAssetResetting(a, id, p, t) ==
  [k \in AssetIds |->
     IF k = id THEN [status |-> "pending", rows |-> <<>>, page |-> p, typ |-> t, calls |-> 0]
     ELSE IF a[k].status # "absent" /\ a[k].page = p THEN [a[k] EXCEPT !.status = "pending"]
     ELSE a[k]]

\* A save_asset that adds the row to the session and leaves the commit for
\* later: the store does not have the row when save_asset returns.
NewAssetDeferred(a, id, p, t) == a

\* The row save_asset commits: status 'pending' by the column default.
NewAsset(a, id, p, t) ==
  [a EXCEPT ![id] = [status |-> "pending", rows |-> <<>>, page |-> p, typ |-> t, calls |-> 0]]

\* The next reference is an image (not after the PDF loop has begun) or a PDF
\* anchor.  save_asset commits the row (c), or the commit fails, the session
\* is rolled back and None is returned.  process_with_ocr then calls the OCR
\* entry point if there is a processor and an asset.
SaveAsset(r) ==
  /\ run[r].pc = "extract"
  /\ run[r].j <= MaxRefs
  /\ \E typ \in {"image", "pdf"}, c \in BOOLEAN :
       /\ typ = "image" => ~run[r].pdfs
       /\ c => NextAssetId \in AssetIds
       /\ Charge(F(c))
       /\ asset' = IF c THEN NewAsset(asset, NextAssetId, CurPage(r), typ) ELSE asset
       /\ IF c /\ HasOcr(run[r].kind)
            THEN /\ run' = [run EXCEPT ![r].pc = "ocr", ![r].pdfs = (typ = "pdf")]
                 /\ ocr' = [ocr EXCEPT ![r] = [IdleOcr EXCEPT !.pc = "entry",
                                                 !.aid = NextAssetId, !.typ = typ]]
            ELSE /\ run' = [run EXCEPT ![r].j = run[r].j + 1, ![r].pdfs = (typ = "pdf")]
                 /\ ocr' = ocr
  /\ UNCHANGED <<ocrResult, cu, urlStatus, blobs, queue>>

\* The page has no further reference: every loop ran through, status
\* 'completed'.
ExtractDone(r) ==
  /\ run[r].pc = "extract"
  /\ EndPage(r, "completed", 0)
  /\ UNCHANGED <<ocrResult, cu, asset, blobs, ocr, queue>>


\* ------------------------------------------------- OCRProcessor
\* A set_asset_status that leaves out the intermediate status.
StoreStatusLate(a, k, s, c) == IF c /\ s # "processing" THEN [a EXCEPT ![k].status = s] ELSE a

\* A set_asset_status whose rollback discards the row it could not update.
StoreStatusDropping(a, k, s, c) ==
  IF c THEN [a EXCEPT ![k].status = s]
  ELSE [a EXCEPT ![k] = [status |-> "absent", rows |-> <<>>, page |-> 0,
                          typ |-> "none", calls |-> 0]]

\* set_asset_status(asset_id, status): the row is updated and committed (c),
\* or the commit fails, the error is logged and the session rolled back.
StoreStatus(a, k, s, c) == IF c THEN [a EXCEPT ![k].status = s] ELSE a

\* The log of the call: the status writes it attempted and those that stored.
TryStatus(rec, s, c) ==
  [rec EXCEPT !.tried = Append(@, s), !.wrote = IF c THEN Append(@, s) ELSE @]

\* The retry wrapper of process_image and process_pdf calls the body again
\* when the body raises a GoogleAPIError.
RetryPredicate(exc) == exc = "GoogleAPIError"

\* What leaves the body of process_image / process_pdf after error err: the
\* body's `except Exception` catches everything raised in it, the recognition
\* service's GoogleAPIError included, and returns None.
Escaped(err) == "none"

\* The early return after a failed download and the except block: status
\* 'failed' (c: the write stores), rollback, return None.
Failed(r, rec, err) ==
  \E c \in BOOLEAN :
    /\ Charge(1 + F(c))
    /\ asset' = StoreStatus(asset, rec.aid, "failed", c)
    /\ ocr' = [ocr EXCEPT ![r] = [TryStatus(rec, "failed", c) EXCEPT
                                    !.pc = "ret", !.ret = "None", !.err = err]]

\* Entry of process_image / process_pdf: status 'processing'.
OcrEntry(r) ==
  /\ ocr[r].pc = "entry"
  /\ \E c \in BOOLEAN :
       /\ Charge(F(c))
       /\ asset' = [StoreStatus(asset, ocr[r].aid, "processing", c)
                      EXCEPT ![ocr[r].aid].calls = @ + 1]
       /\ ocr' = [ocr EXCEPT ![r] = [TryStatus(ocr[r], "processing", c) EXCEPT !.pc = "download"]]
  /\ UNCHANGED <<ocrResult, cu, urlStatus, blobs, run, queue>>

\* A download that skips the check of the status code.
DownloadUnchecked(d) == d # "exc"

\* `if response.status_code != 200`: only a 200 goes on.
DownloadOk(d) == d = "200"

\* requests.get(url, timeout=30): 200, another status, or an exception.
OcrDownload(r) ==
  /\ ocr[r].pc = "download"
  /\ \E d \in {"200", "non200", "exc"} :
       LET rec == [ocr[r] EXCEPT !.dl = d, !.nDl = @ + 1] IN
       IF DownloadOk(d)
         THEN /\ ocr' = [ocr EXCEPT ![r] = [rec EXCEPT !.pc =
                            IF rec.typ = "image" THEN "recognize" ELSE "upload"]]
              /\ UNCHANGED <<asset, faults>>
         ELSE Failed(r, rec, "download")
  /\ UNCHANGED <<ocrResult, cu, urlStatus, blobs, run, queue>>

\* process_image: client.document_text_detection.  It answers, raises a
\* GoogleAPIError (a transient service error), or answers with error.message
\* set, for which the body raises Exception.
OcrRecognize(r) ==
  /\ ocr[r].pc = "recognize"
  /\ \E o \in {"ok", "transient", "error"} :
       LET rec == [ocr[r] EXCEPT !.nRecog = @ + 1] IN
       IF o = "ok"
         THEN /\ ocr' = [ocr EXCEPT ![r] = [rec EXCEPT !.pc = "persist"]]
              /\ UNCHANGED <<asset, faults>>
         ELSE Failed(r, rec, o)
  /\ UNCHANGED <<ocrResult, cu, urlStatus, blobs, run, queue>>

\* A staging upload whose failure is ignored.
UploadIgnored(o) == TRUE

\* pdf_blob.upload_from_string sits in the try block of process_pdf: when it
\* raises, the statements after it are skipped.
UploadOk(o) == o = "ok"

\* process_pdf: pdf_blob.upload_from_string stages pdfs/<asset_id>.pdf.
OcrUpload(r) ==
  /\ ocr[r].pc = "upload"
  /\ \E o \in {"ok", "exc"} :
       LET rec == [ocr[r] EXCEPT !.nUp = @ + 1, !.up = o] IN
       IF UploadOk(o)
         THEN /\ ocr' = [ocr EXCEPT ![r] = [rec EXCEPT !.pc = "batch"]]
              /\ blobs' = [blobs EXCEPT ![rec.aid] = @ \cup {"pdf"}]
              /\ UNCHANGED <<asset, faults>>
         ELSE /\ Failed(r, rec, "upload")
              /\ blobs' = blobs
  /\ UNCHANGED <<ocrResult, cu, urlStatus, run, queue>>

\* The ceiling, in seconds, of the wait for the batch job.
batch_timeout == 180

\* The time, in seconds, the batch job takes: less than the ceiling or more.
JobTimes == {batch_timeout - 1, batch_timeout + 1}

\* A wait that goes on to the outputs once the ceiling has passed.
BatchDoneOrTimeout(t) == TRUE

\* operation.result(timeout=batch_timeout) returns when the job is complete
\* within the ceiling and raises otherwise.
BatchDone(t) == t <= batch_timeout

\* process_pdf: async_batch_annotate_files and operation.result(timeout=180).
\* The job writes its outputs under ocr_results/<asset_id>/; the submit raises
\* a GoogleAPIError, or the wait times out (the job may have written outputs).
OcrBatch(r) ==
  /\ ocr[r].pc = "batch"
  /\ \E submitted \in BOOLEAN, t \in JobTimes, w \in BOOLEAN :
       LET o == IF ~submitted THEN "transient"
                ELSE IF t <= batch_timeout THEN "done" ELSE "timeout"
           rec == [ocr[r] EXCEPT !.nRecog = @ + 1, !.job = o]
       IN
       /\ o = "done" => w
       /\ o = "transient" => ~w
       /\ blobs' = IF w THEN [blobs EXCEPT ![rec.aid] = @ \cup {"out"}] ELSE blobs
       /\ IF submitted /\ BatchDone(t)
            THEN /\ ocr' = [ocr EXCEPT ![r] = [rec EXCEPT !.pc = "persist"]]
                 /\ UNCHANGED <<asset, faults>>
            ELSE Failed(r, rec, o)
  /\ UNCHANGED <<ocrResult, cu, urlStatus, run, queue>>

\* A store that commits the status on its own: the result row is not part of
\* that commit and is lost.
StoreResultStatusOnly(a, k, row, c) ==
  IF c THEN [a EXCEPT ![k].status = "processed"] ELSE a

\* A store that keeps one result per asset: the new row takes the place of
\* the rows the asset has.
StoreResultReplacing(a, k, row, c) ==
  IF c THEN [a EXCEPT ![k].status = "processed", ![k].rows = <<row>>] ELSE a

\* db.session.add(ocr_result); set_asset_status(..., 'processed'): the commit
\* inside set_asset_status flushes the new row together with the status (c);
\* when it fails its rollback drops the pending row as well.
StoreResult(a, k, row, c) ==
  IF c THEN [a EXCEPT ![k].status = "processed", ![k].rows = Append(@, row)] ELSE a

\* The result is kept: db.session.add(ocr_result), set_asset_status(...,
\* 'processed'), db.session.commit(); after set_asset_status the session has
\* nothing left to write, whether its commit stored or was rolled back.
\* process_pdf first reads the outputs (rd: without an exception).
\* process_image returns the result; process_pdf goes on to its cleanup.
OcrPersist(r) ==
  /\ ocr[r].pc = "persist"
  /\ \E rd \in BOOLEAN, c \in BOOLEAN :
       /\ ocr[r].typ = "image" => rd
       /\ IF ~rd
            THEN Failed(r, [ocr[r] EXCEPT !.nRd = @ + 1], "read")
            ELSE /\ Charge(F(c))
                 /\ asset' = StoreResult(asset, ocr[r].aid, r, c)
                 /\ ocr' = [ocr EXCEPT ![r] =
                      [TryStatus(ocr[r], "processed", c) EXCEPT
                         !.nRd = IF ocr[r].typ = "pdf" THEN @ + 1 ELSE @,
                         !.rows = IF c THEN @ + 1 ELSE @,
                         !.pc = IF ocr[r].typ = "image" THEN "ret" ELSE "cleanup",
                         !.ret = IF ocr[r].typ = "image" THEN "result" ELSE "none"]]
  /\ UNCHANGED <<ocrResult, cu, urlStatus, blobs, run, queue>>

\* process_pdf: pdf_blob.delete() and output.delete() for every output, inside
\* the try block: when a delete raises, what was not yet deleted stays and
\* the except block runs.
OcrCleanup(r) ==
  /\ ocr[r].pc = "cleanup"
  /\ \/ /\ blobs' = [blobs EXCEPT ![ocr[r].aid] = {}]
        /\ ocr' = [ocr EXCEPT ![r].pc = "ret", ![r].ret = "result"]
        /\ UNCHANGED <<asset, faults>>
     \/ /\ \E left \in {{"pdf", "out"}, {"out"}} :
             blobs' = [blobs EXCEPT ![ocr[r].aid] = @ \cap left]
        /\ Failed(r, ocr[r], "cleanup")
  /\ UNCHANGED <<ocrResult, cu, urlStatus, run, queue>>

\* A process_with_ocr that lets a failed OCR call end the crawl of the page:
\* the page is set failed and the loop goes on with the next page.
OcrReturnAborting(r) ==
  /\ ocr[r].pc = "ret"
  /\ ocr' = [ocr EXCEPT ![r] = IdleOcr]
  /\ IF run[r].kind = "ocrpost"
       THEN /\ run' = [run EXCEPT ![r].pc = "done", ![r].resp =
                         IF ocr[r].ret = "result" THEN "200" ELSE "500"]
            /\ urlStatus' = urlStatus
       ELSE IF ocr[r].ret = "None"
         THEN /\ urlStatus' = [urlStatus EXCEPT ![run[r].sel[run[r].idx]] = "failed"]
              /\ run' = [run EXCEPT ![r] = Advance(run[r], FALSE)]
         ELSE /\ run' = [run EXCEPT ![r].pc = "extract", ![r].j = run[r].j + 1]
              /\ urlStatus' = urlStatus
  /\ UNCHANGED <<ocrResult, cu, asset, blobs, queue, faults>>

\* The call is over.  The retry wrapper would call the body again for a
\* GoogleAPIError that left it; otherwise process_with_ocr returns and the
\* loop of crawl_url goes on with the next reference, or ProcessAssetOCR.post
\* answers 200 with the result or 500 without one.
OcrReturn(r) ==
  /\ ocr[r].pc = "ret"
  /\ IF RetryPredicate(Escaped(ocr[r].err))
       THEN /\ ocr' = [ocr EXCEPT ![r].pc = "entry", ![r].ret = "none", ![r].err = "none"]
            /\ run' = run
       ELSE /\ ocr' = [ocr EXCEPT ![r] = IdleOcr]
            /\ run' = IF run[r].kind = "ocrpost"
                        THEN [run EXCEPT ![r].pc = "done", ![r].resp =
                                IF ocr[r].ret = "result" THEN "200" ELSE "500"]
                        ELSE [run EXCEPT ![r].pc = "extract", ![r].j = run[r].j + 1]
  /\ UNCHANGED <<ocrResult, cu, urlStatus, asset, blobs, queue, faults>>

\* ------------------------------------------------- specification
Next ==
  \/ SchedSkip
  \/ SchedMissed
  \/ \E r \in RunIds :
       \/ SchedStart(r)
       \/ PostSync(r)
       \/ PostThread(r)
       \/ ThreadRun(r)
       \/ PostOcr(r)
       \/ FetchFail(r)
       \/ FetchOk(r)
       \/ ExtractRaise(r)
       \/ SaveAsset(r)
       \/ ExtractDone(r)
       \/ OcrEntry(r)
       \/ OcrDownload(r)
       \/ OcrRecognize(r)
       \/ OcrUpload(r)
       \/ OcrBatch(r)
       \/ OcrPersist(r)
       \/ OcrCleanup(r)
       \/ OcrReturn(r)

Spec == Init /\ [][Next]_vars


\* ------------------------------------- one crawl_url call in detail
\* The URLs a page refers to: an image, a PDF, and one that is neither.
Urls == {"a.png", "d.pdf", "p.html"}

\* is_image / is_pdf: the URL ends with one of the extensions.
is_image(url) == url \in {"a.png"}

is_pdf(url) == url \in {"d.pdf"}

\* An element of the rendered page.  "" is an absent attribute; srcset is
\* the list of the candidates between the commas of the attribute ("" is a
\* blank candidate, as in srcset="a.png, "); bg is the list of the
\* parenthesised groups of a style with background-image.
El(tag, src, dsrc, srcset, bg, href) ==
  [tag |-> tag, src |-> src, dsrc |-> dsrc, srcset |-> srcset, bg |-> bg, href |-> href]

Elements ==
  { El("img", "a.png", "", <<>>, <<>>, ""),
    El("img", "a.png", "a.png", <<"a.png">>, <<>>, ""),
    El("img", "p.html", "", <<"a.png", "">>, <<>>, ""),
    El("div", "", "", <<>>, <<"a.png">>, ""),
    El("source", "", "", <<"a.png">>, <<>>, ""),
    El("a", "", "", <<>>, <<>>, "d.pdf"),
    El("a", "", "", <<>>, <<>>, "p.html") }

\* The pages driver.page_source may return.
Htmls == UNION { [1..n -> Elements] : n \in 0..MaxElems }

\* A reference the loops of crawl_url reach: what save_asset is called with
\* (url, typ), the attribute it came from and the element.  typ "raise" is
\* the point where the loop raises.
Ref(url, typ, src, el) == [url |-> url, typ |-> typ, src |-> src, el |-> el]

\* An extractor that remembers what it has recorded and skips a URL it
\* recorded in the crawl before.
MatchUnseen(url, typ, src, el) ==
  IF /\ (typ = "image" /\ is_image(url)) \/ (typ = "pdf" /\ is_pdf(url))
     /\ ~\E n \in 1..Len(cu.prev) : cu.prev[n] = <<url, typ>>
    THEN <<Ref(url, typ, src, el)>>
    ELSE <<>>

\* `if self.is_image(full)` / `if self.is_pdf(href)`: only a matching URL
\* is saved.
Match(url, typ, src, el) ==
  IF (typ = "image" /\ is_image(url)) \/ (typ = "pdf" /\ is_pdf(url))
    THEN <<Ref(url, typ, src, el)>>
    ELSE <<>>

\* for attr in ('src', 'data-src'): src = img.get(attr); if src: ...
AttrRefs(e, i) ==
  (IF e.src # "" THEN Match(e.src, "image", "src", i) ELSE <<>>)
  \o (IF e.dsrc # "" THEN Match(e.dsrc, "image", "data-src", i) ELSE <<>>)

\* for candidate in img['srcset'].split(','): candidate.strip().split()[0]
\* raises IndexError on a blank candidate.
RECURSIVE Candidates(_, _, _)
Candidates(cs, i, n) ==
  IF n > Len(cs) THEN <<>>
  ELSE IF cs[n] = "" THEN <<Ref("", "raise", "srcset", i)>>
  ELSE Match(cs[n], "image", "srcset", i) \o Candidates(cs, i, n + 1)

\* The body of the loop over soup.find_all('img') for one element.
ImgRefs(e, i) == AttrRefs(e, i) \o Candidates(e.srcset, i, 1)

\* for img in soup.find_all('img')
RECURSIVE ImgLoop(_, _)
ImgLoop(html, i) ==
  IF i > Len(html) THEN <<>>
  ELSE (IF html[i].tag = "img" THEN ImgRefs(html[i], i) ELSE <<>>) \o ImgLoop(html, i + 1)

\* for match in re.findall(r'\((.*?)\)', style)
RECURSIVE Groups(_, _, _)
Groups(gs, i, n) ==
  IF n > Len(gs) THEN <<>>
  ELSE Match(gs[n], "image", "background-image", i) \o Groups(gs, i, n + 1)

\* for el in soup.find_all(style=True)
RECURSIVE StyleLoop(_, _)
StyleLoop(html, i) ==
  IF i > Len(html) THEN <<>>
  ELSE Groups(html[i].bg, i, 1) \o StyleLoop(html, i + 1)

\* for src in soup.find_all('source'): the first candidate of its srcset.
RECURSIVE SourceLoop(_, _)
SourceLoop(html, i) ==
  IF i > Len(html) THEN <<>>
  ELSE (IF html[i].tag = "source" /\ html[i].srcset # <<>>
          THEN Match(html[i].srcset[1], "image", "source", i) ELSE <<>>)
       \o SourceLoop(html, i + 1)

\* for a in soup.find_all('a', href=True)
RECURSIVE PdfLoop(_, _)
PdfLoop(html, i) ==
  IF i > Len(html) THEN <<>>
  ELSE (IF html[i].tag = "a" /\ html[i].href # ""
          THEN Match(html[i].href, "pdf", "href", i) ELSE <<>>)
       \o PdfLoop(html, i + 1)

\* The references up to the point where a loop raises.
RECURSIVE UpToRaise(_, _)
UpToRaise(s, n) ==
  IF n > Len(s) THEN s
  ELSE IF s[n].typ = "raise" THEN SubSeq(s, 1, n)
  ELSE UpToRaise(s, n + 1)

\* The references crawl_url reaches in a page, in the order of its loops.
Refs(html) ==
  UpToRaise(ImgLoop(html, 1) \o StyleLoop(html, 1) \o SourceLoop(html, 1)
            \o PdfLoop(html, 1), 1)

\* driver.set_page_load_timeout(self.page_load_timeout);
\* driver.set_script_timeout(self.script_timeout), in attempt `attempt` (from 0).
Budget(attempt) == [n |-> attempt + 1, page_load |-> page_load_timeout,
                    script |-> script_timeout]

\* A backoff that numbers the attempts from 1.
BackoffFromOne(attempt) == 2 ^ (attempt + 1)

\* time.sleep(2 ** attempt), with attempt the loop variable of
\* `for attempt in range(self.max_retries)` (from 0).
Backoff(attempt) == 2 ^ attempt

\* A check of the last attempt that is off by one.
LastAttemptEarly(attempt) == attempt = max_retries - 2

\* `if attempt == self.max_retries - 1: return None`
LastAttempt(attempt) == attempt = max_retries - 1

\* The three except blocks of fetch_dom: each returns None on the last
\* attempt and sleeps otherwise.
Handler(exc, attempt) == IF LastAttempt(attempt) THEN "None" ELSE "sleep"

\* A finally block that leaves the session open.
NoQuit(open, driver) == open

\* finally: if driver: driver.quit() (the session the variable refers to;
\* an exception of quit is logged and goes no further).
Quit(open, driver) == open \ {driver}

\* crawl_url is called, by a Crawler with or without an OCR processor.
CallCrawlUrl ==
  /\ cu.pc = "idle"
  /\ \E h \in BOOLEAN : cu' = [cu EXCEPT !.pc = "attempt", !.hasOcr = h]
  /\ UNCHANGED <<urlStatus, asset, blobs, run, ocr, queue, faults, ocrResult>>

\* The try block of one attempt with its except block.  mk: webdriver.Chrome
\* returned a session (the driver manager or the constructor may raise before
\* that); out: the page source is returned, or a TimeoutException, a
\* WebDriverException or another exception is raised.
Attempt ==
  /\ cu.pc = "attempt"
  /\ \E out \in {"html", "timeout", "webdriver", "other"}, mk \in BOOLEAN, h \in Htmls :
       /\ out \in {"html", "timeout"} => mk
       /\ out # "html" => h = <<>>
       /\ cu' = [cu EXCEPT
            !.pc = "finally",
            !.made = IF mk THEN cu.made + 1 ELSE cu.made,
            !.driver = IF mk THEN cu.made + 1 ELSE cu.driver,
            !.open = IF mk THEN cu.open \cup {cu.made + 1} ELSE cu.open,
            !.budgets = IF mk THEN Append(cu.budgets, Budget(cu.attempt)) ELSE cu.budgets,
            !.excs = Append(cu.excs, out),
            !.html = h,
            !.after = IF out = "html" THEN "html" ELSE Handler(out, cu.attempt),
            !.waits = IF out # "html" /\ Handler(out, cu.attempt) = "sleep"
                        THEN Append(cu.waits, Backoff(cu.attempt)) ELSE cu.waits]
  /\ UNCHANGED <<urlStatus, asset, blobs, run, ocr, queue, faults, ocrResult>>

\* The finally block, then what the try or except block had decided: return
\* the HTML, return None, or go on with the next attempt.
Finally ==
  /\ cu.pc = "finally"
  /\ cu' = [cu EXCEPT
       !.open = IF cu.driver # 0 THEN Quit(cu.open, cu.driver) ELSE cu.open,
       !.pc = IF cu.after = "html" THEN "rendered"
              ELSE IF cu.after = "None" THEN "nohtml" ELSE "attempt",
       !.ret = IF cu.after = "sleep" THEN "none" ELSE cu.after,
       !.attempt = IF cu.after = "sleep" THEN cu.attempt + 1 ELSE cu.attempt,
       !.after = "none"]
  /\ UNCHANGED <<urlStatus, asset, blobs, run, ocr, queue, faults, ocrResult>>

\* The status write that ends crawl_url (c1: the commit of the try block,
\* c2: the commit of the except block).
EndCrawl(rec, body, c1, c2) ==
  LET res == CrawlUrlEnd(body, c1, c2) IN
  [rec EXCEPT !.pc = "done",
              !.status = IF res.write = "none" THEN rec.status ELSE res.write,
              !.stored = IF body # "raised" /\ c1 THEN "try"
                         ELSE IF c2 THEN "except" ELSE "none",
              !.raised = res.raised]

\* `if not html`: status 'failed', commit, return.
NoHtml ==
  /\ cu.pc = "nohtml"
  /\ \E c1 \in BOOLEAN, c2 \in BOOLEAN :
       /\ c1 => c2
       /\ cu' = EndCrawl(cu, "nohtml", c1, c2)
  /\ UNCHANGED <<urlStatus, asset, blobs, run, ocr, queue, faults, ocrResult>>

\* soup = BeautifulSoup(html, 'html.parser'): fetch_dom has returned, its
\* locals are gone.
Soup ==
  /\ cu.pc = "rendered"
  /\ cu' = [IdleCu EXCEPT !.pc = "extract", !.hasOcr = cu.hasOcr, !.ret = cu.ret,
                          !.html = cu.html, !.k = 1]
  /\ UNCHANGED <<urlStatus, asset, blobs, run, ocr, queue, faults, ocrResult>>

\* An inserting save_asset that looks for a row of the same URL first.
SaveRowOnce(saved, k, refs) ==
  IF \E n \in 1..Len(saved) : refs[saved[n]].url = refs[k].url
    THEN saved ELSE Append(saved, k)

\* save_asset: db.session.add(Asset(url, typ, url_id)); commit.
SaveRow(saved, k, refs) == Append(saved, k)

\* A process_with_ocr that does not look at the asset.
OcrInvokedAlways(hasOcr, c) == hasOcr

\* process_with_ocr: `if self.ocr_processor and asset` (c: save_asset
\* returned the asset, not None).
OcrInvoked(hasOcr, c) == hasOcr /\ c

\* The descriptor of a reference: the arguments of save_asset, the URL made
\* absolute against the page's URL and the type.
Desc(ref) == <<ref.url, ref.typ>>

\* The next reference: save_asset commits the row (c) or fails and returns
\* None; process_with_ocr calls OCR for it and swallows what it raises.
Reference ==
  /\ cu.pc = "extract"
  /\ cu.k <= Len(Refs(cu.html))
  /\ Refs(cu.html)[cu.k].typ # "raise"
  /\ \E c \in BOOLEAN :
       cu' = [cu EXCEPT
         !.saved = IF c THEN SaveRow(cu.saved, cu.k, Refs(cu.html)) ELSE cu.saved,
         !.lost = IF c THEN cu.lost ELSE Append(cu.lost, cu.k),
         !.calls = IF OcrInvoked(cu.hasOcr, c) THEN Append(cu.calls, cu.k) ELSE cu.calls,
         !.descs = Append(cu.descs, Desc(Refs(cu.html)[cu.k])),
         !.k = cu.k + 1]
  /\ UNCHANGED <<urlStatus, asset, blobs, run, ocr, queue, faults, ocrResult>>

\* The loop raises at the next reference: the except block of crawl_url.
Raise ==
  /\ cu.pc = "extract"
  /\ cu.k <= Len(Refs(cu.html))
  /\ Refs(cu.html)[cu.k].typ = "raise"
  /\ \E c2 \in BOOLEAN : cu' = EndCrawl(cu, "raised", FALSE, c2)
  /\ UNCHANGED <<urlStatus, asset, blobs, run, ocr, queue, faults, ocrResult>>

\* Every loop ran through: status 'completed', commit.
Completed ==
  /\ cu.pc = "extract"
  /\ cu.k > Len(Refs(cu.html))
  /\ \E c1 \in BOOLEAN, c2 \in BOOLEAN :
       /\ c1 => c2
       /\ cu' = EndCrawl(cu, "completed", c1, c2)
  /\ UNCHANGED <<urlStatus, asset, blobs, run, ocr, queue, faults, ocrResult>>

\* crawl_url is called for the page a second time (by another run that
\* selected it, or because no status was stored) and fetch_dom returns the
\* same HTML.
CrawlAgain ==
  /\ cu.pc = "done"
  /\ cu.ret = "html"
  /\ cu.round = 1
  /\ \E h \in BOOLEAN :
       cu' = [IdleCu EXCEPT !.pc = "extract", !.hasOcr = h, !.ret = cu.ret,
                            !.html = cu.html, !.k = 1, !.status = cu.status,
                            !.prev = cu.descs, !.round = 2]
  /\ UNCHANGED <<urlStatus, asset, blobs, run, ocr, queue, faults, ocrResult>>

CrawlNext ==
  \/ CallCrawlUrl
  \/ Attempt
  \/ Finally
  \/ NoHtml
  \/ Soup
  \/ Reference
  \/ Raise
  \/ Completed
  \/ CrawlAgain

CrawlSpec == Init /\ [][CrawlNext]_vars


\* ------------------------------------- the OCRResult of one OCR call
\* Texts are sequences of characters: an empty text, a word, and a text
\* with a line break of its own.
Texts == { <<>>, <<"a">>, <<"b", "\n", "c">> }

\* An output object of the batch job: whether its content parses as JSON,
\* the value of 'responses' in it (the fullTextAnnotation.text of each
\* response; <<>> when the key is missing or the list is empty) and the
\* content decoded as it is.
Obj(json, responses, raw) == [json |-> json, responses |-> responses, raw |-> raw]

Objects ==
  { Obj(FALSE, <<>>, <<"x">>), Obj(TRUE, <<>>, <<"{", "}">>) }
  \cup { Obj(TRUE, <<t>>, <<"{", "1", "}">>) : t \in Texts }
  \cup { Obj(TRUE, <<t, <<"z">>>>, <<"{", "2", "}">>) : t \in Texts }

\* What bucket.list_blobs(prefix=ocr_results/<asset_id>/) may return.
Listings == UNION { [1..n -> Objects] : n \in 0..MaxOutputs }

\* Confidences in hundredths.
Confs == {40, 90}

\* document.pages of an image annotation: the confidence of each page.
PageLists == UNION { [1..n -> Confs] : n \in 0..MaxPages }

\* confidence=1.0 of the OCRResult of a PDF, in hundredths.
pdf_confidence == 100

\* `... else 0.0`: the confidence of an image annotation without pages.
no_page_confidence == 0

\* json.loads(content): the text of the first response when 'responses' is
\* there and not empty, the decoded content otherwise and when the content
\* is not JSON.
Fragment(o) == IF o.json /\ o.responses # <<>> THEN o.responses[1] ELSE o.raw

\* for output in bucket.list_blobs(...): results.append(...)
Fragments(outs) == [i \in 1..Len(outs) |-> Fragment(outs[i])]

\* A join that puts nothing between the fragments.
RECURSIVE JoinPlain(_)
JoinPlain(frags) ==
  IF frags = <<>> THEN <<>> ELSE frags[1] \o JoinPlain(Tail(frags))

\* '\n'.join(results)
RECURSIVE Join(_)
Join(frags) ==
  IF frags = <<>> THEN <<>>
  ELSE IF Len(frags) = 1 THEN frags[1]
  ELSE frags[1] \o <<"\n">> \o Join(Tail(frags))

\* OCRResult(asset_id, content='\n'.join(results), confidence=1.0)
PdfResult(outs) == [content |-> Join(Fragments(outs)), confidence |-> pdf_confidence]

\* OCRResult(asset_id, content=document.text,
\*           confidence=document.pages[0].confidence if document.pages else 0.0)
ImageResult(text, pages) ==
  [content |-> text,
   confidence |-> IF pages # <<>> THEN pages[1] ELSE no_page_confidence]

\* process_pdf: the batch job is complete and the outputs are listed.
BatchOutputs ==
  /\ ocrResult.pc = "idle"
  /\ \E outs \in Listings :
       ocrResult' = [ocrResult EXCEPT !.pc = "outputs", !.typ = "pdf", !.outs = outs]
  /\ UNCHANGED <<urlStatus, asset, blobs, run, ocr, queue, faults, cu>>

\* process_image: document_text_detection answers with an annotation.
TextDetection ==
  /\ ocrResult.pc = "idle"
  /\ \E text \in Texts, pages \in PageLists :
       ocrResult' = [ocrResult EXCEPT !.pc = "annotation", !.typ = "image",
                          !.text = text, !.pages = pages]
  /\ UNCHANGED <<urlStatus, asset, blobs, run, ocr, queue, faults, cu>>

\* db.session.add(ocr_result); set_asset_status(asset_id, 'processed'): the
\* row and the status are committed together (c), or the commit fails and
\* the rollback drops the row.
Persist(rec, row, c) ==
  [rec EXCEPT !.pc = "done",
              !.rows = IF c THEN Append(rec.rows, row) ELSE rec.rows,
              !.status = IF c THEN "processed" ELSE rec.status]

\* process_pdf: the outputs are read and the result is persisted.
PersistPdf ==
  /\ ocrResult.pc = "outputs"
  /\ \E c \in BOOLEAN : ocrResult' = Persist(ocrResult, PdfResult(ocrResult.outs), c)
  /\ UNCHANGED <<urlStatus, asset, blobs, run, ocr, queue, faults, cu>>

\* process_image: the result is persisted.
PersistImage ==
  /\ ocrResult.pc = "annotation"
  /\ \E c \in BOOLEAN : ocrResult' = Persist(ocrResult, ImageResult(ocrResult.text, ocrResult.pages), c)
  /\ UNCHANGED <<urlStatus, asset, blobs, run, ocr, queue, faults, cu>>

ResultNext ==
  \/ BatchOutputs
  \/ TextDetection
  \/ PersistPdf
  \/ PersistImage

ResultSpec == Init /\ [][ResultNext]_vars


\* ------------------------------------------------- claims
Range(s) == { s[i] : i \in 1..Len(s) }

\* s is an initial part of t.
IsPrefix(s, t) == Len(s) <= Len(t) /\ \A i \in 1..Len(s) : s[i] = t[i]

\* Run r has called fetch_dom for page p.
Rendered(r, p) ==
  /\ run[r].kind \in {"sched", "sync"}
  /\ \E i \in 1..Len(run[r].sel) :
       /\ run[r].sel[i] = p
       /\ \/ i < run[r].idx
          \/ i = run[r].idx /\ run[r].pc \in {"extract", "ocr", "done"}

\* The stored status of the asset the OCR call of run r works on.
CallStatus(r) == asset[ocr[r].aid].status

\* No other OCR call has worked on the asset of the call of run r.
SoleCall(r) == asset[ocr[r].aid].calls = IF ocr[r].pc = "entry" THEN 0 ELSE 1

\* C1: when two run-loop invocations are in flight at the same time and both
\* selected the same pending page, at most one of them crawls (renders) it.
C1_ExactlyOneCrawls ==
  \A r1 \in RunIds, r2 \in RunIds, p \in Pages :
    (r1 < r2 /\ Active(r1) /\ Active(r2)
       /\ p \in Range(run[r1].sel) /\ p \in Range(run[r2].sel))
    => ~(Rendered(r1, p) /\ Rendered(r2, p))

\* C2: once a page is completed or failed, no step changes its status again.
C2_TerminalIsFinal ==
  [][\A p \in Pages : urlStatus[p] \in UrlTerminal => urlStatus'[p] = urlStatus[p]]_vars

\* C3 as stated: during the work of a call (from the download on) the stored
\* status is processing, a terminal status is stored only after processing
\* was stored in the same call, and at the return the stored status is
\* processed or failed.
C3_StoredStatusFollowsCall ==
  \A r \in RunIds : ocr[r].pc # "idle" =>
    /\ ocr[r].pc \in {"download", "recognize", "upload", "batch", "persist"}
         => CallStatus(r) = "processing"
    /\ CallStatus(r) \in AssetTerminal => "processing" \in Range(ocr[r].wrote)
    /\ ocr[r].pc = "ret" => CallStatus(r) \in AssetTerminal

\* C3 amended: each call attempts its status writes in the order processing,
\* then processed or failed: processing is attempted before any download,
\* recognition or upload, every later write is a terminal status, and the last
\* write before the return is a terminal one.  The stored status is the last
\* write that stored (a failed write leaves it as it was), so, for an asset no
\* other call has worked on, it is processing during the work and terminal at
\* the return whenever the writes stored.
C3_WritesInOrder ==
  \A r \in RunIds : ocr[r].pc # "idle" =>
    /\ ocr[r].pc = "entry" =>
         ocr[r].tried = <<>> /\ ocr[r].nDl = 0 /\ ocr[r].nRecog = 0 /\ ocr[r].nUp = 0
    /\ ocr[r].pc # "entry" => Len(ocr[r].tried) >= 1 /\ ocr[r].tried[1] = "processing"
    /\ \A i \in 2..Len(ocr[r].tried) : ocr[r].tried[i] \in AssetTerminal
    /\ ocr[r].pc = "ret" => Len(ocr[r].tried) >= 2 /\ Last(ocr[r].tried) \in AssetTerminal
    /\ SoleCall(r) =>
         /\ CallStatus(r) = IF ocr[r].wrote = <<>> THEN "pending" ELSE Last(ocr[r].wrote)
         /\ (ocr[r].wrote = ocr[r].tried /\ ocr[r].pc \notin {"entry", "ret", "cleanup"})
              => CallStatus(r) = "processing"
         /\ (ocr[r].wrote = ocr[r].tried /\ ocr[r].pc = "ret")
              => CallStatus(r) \in AssetTerminal

\* A call has returned with every status write stored.
C3_Witness ==
  \E r \in RunIds : /\ ocr[r].pc = "ret"
                    /\ ocr[r].wrote = ocr[r].tried
                    /\ ocr[r].wrote = <<"processing", "processed">>

\* C4: a call that ends failed because of a transient error of the
\* recognition service has made at least 5 recognition attempts (no wait
\* between attempts has happened before a second attempt, so the retry
\* deadline cannot be what ended it).
C4_FailedOnlyAfterRetries ==
  \A r \in RunIds :
    (ocr[r].pc = "ret" /\ ocr[r].err = "transient" /\ CallStatus(r) = "failed")
      => ocr[r].nRecog >= 5

\* C5: a call that returns no result with the asset failed has added no
\* OCRResult row, and a call that returns a result with the asset processed
\* has added exactly one.
C5_FailedRunAddsNoRow ==
  \A r \in RunIds : ocr[r].pc = "ret" =>
    /\ (ocr[r].ret = "None" /\ CallStatus(r) = "failed") => ocr[r].rows = 0
    /\ (ocr[r].ret = "result" /\ CallStatus(r) = "processed") => ocr[r].rows = 1

\* C6 as stated: after a download with a status other than 200 the asset is
\* failed, no row was added, the recognition service was not called, nothing
\* was uploaded and the download was made once.
C6_DownloadFailureShortCircuits ==
  \A r \in RunIds : (ocr[r].pc = "ret" /\ ocr[r].dl = "non200") =>
    /\ CallStatus(r) = "failed"
    /\ ocr[r].rows = 0 /\ ocr[r].nRecog = 0 /\ ocr[r].nUp = 0 /\ ocr[r].nDl = 1
    /\ blobs[ocr[r].aid] = {}

\* C6 amended: after a download with a status other than 200 the call writes
\* the status failed as its last write and returns None; no row was added,
\* the recognition service was not called, nothing was uploaded, the download
\* was made once.  The asset is failed unless that write itself failed (it is
\* swallowed and leaves the status as it was) or another call has worked on
\* the asset.
C6_DownloadFailureWritesFailed ==
  \A r \in RunIds : (ocr[r].pc = "ret" /\ ocr[r].dl = "non200") =>
    /\ Last(ocr[r].tried) = "failed" /\ Len(ocr[r].tried) = 2
    /\ ocr[r].ret = "None"
    /\ ocr[r].rows = 0 /\ ocr[r].nRecog = 0 /\ ocr[r].nUp = 0 /\ ocr[r].nDl = 1
    /\ SoleCall(r) =>
         /\ (ocr[r].wrote # <<>> /\ Last(ocr[r].wrote) = "failed") => CallStatus(r) = "failed"
         /\ CallStatus(r) \in {"failed", "processing", "pending"}
         /\ asset[ocr[r].aid].rows = <<>>
         /\ blobs[ocr[r].aid] = {}

\* A call has returned after a non-200 download, the asset is failed.
C6_Witness ==
  \E r \in RunIds : ocr[r].pc = "ret" /\ ocr[r].dl = "non200" /\ CallStatus(r) = "failed"

\* C7: a run (scheduled or blocking on-demand) that has ended has crawled
\* every page it selected after a page that failed: it did not stop before
\* its last page.
C7_RunNeverAborted ==
  \A r \in RunIds :
    (run[r].pc = "done" /\ run[r].kind \in {"sched", "sync"})
      => run[r].idx >= Len(run[r].sel)

\* C8: a step of a run that is crawling page P (a step of crawl_url or of the
\* OCR call inside it) changes the status of no other page, and the status of
\* a page changes only in a step of a run that is crawling it.
C8_OnlyCrawledPageChanges ==
  [][/\ \A r \in RunIds :
          ((run'[r] # run[r] \/ ocr'[r] # ocr[r]) /\ CurPage(r) # 0)
            => \A q \in Pages \ {CurPage(r)} : urlStatus'[q] = urlStatus[q]
     /\ \A q \in Pages :
          urlStatus'[q] # urlStatus[q]
            => \E r \in RunIds : CurPage(r) = q /\ run'[r] # run[r]]_vars

\* A run is crawling its second page: the first has its terminal status, the
\* second is still pending.
C8_Witness ==
  \E r \in RunIds :
    /\ Active(r) /\ run[r].idx = 2
    /\ urlStatus[run[r].sel[1]] \in UrlTerminal
    /\ urlStatus[run[r].sel[2]] = UrlPending

C10_TriggerAnswersAtOnce ==
  \A r \in RunIds :
    (run[r].kind \in {"sync", "thread"} /\ run[r].sel # <<>>) => run[r].resp = "202"

\* C10 amended: the threaded trigger (CrawlPendingURLs.post) has answered 202
\* from the moment its thread exists, before any page is processed, and
\* never answers an error for a page;  the blocking trigger
\* (CrawlPending.post) has no answer while it crawls, answers 200 only after
\* its last selected page was crawled, and 500 when an exception leaves
\* crawl_url.
C10_OnlyThreadedTriggerAnswersAtOnce ==
  \A r \in RunIds : run[r].sel # <<>> =>
    /\ run[r].kind = "thread" =>
         /\ run[r].resp = "202"
         /\ run[r].idx = 1 /\ run[r].pc \in {"spawned", "done"}
    /\ run[r].kind = "sync" =>
         /\ run[r].resp # "none" <=> run[r].pc = "done"
         /\ run[r].resp = "200" => run[r].idx = Len(run[r].sel) + 1
         /\ run[r].resp = "500" => run[r].idx <= Len(run[r].sel)
         /\ run[r].resp \in {"none", "200", "500"}

\* The threaded trigger has answered while its thread has not run, and a
\* blocking trigger is crawling without an answer.
C10_Witness ==
  \E r \in RunIds, q \in RunIds :
    /\ run[r].kind = "thread" /\ run[r].resp = "202" /\ run[r].pc = "spawned"
    /\ run[q].kind = "sync" /\ Active(q) /\ run[q].resp = "none"


\* The call of fetch_dom is over (its finally block has run).
Returned == cu.pc \in {"rendered", "nohtml"}

\* C11: a render call returns None only after exactly 3 attempts, none of
\* which gave HTML; it goes on to a further attempt only after a failed one
\* and never starts a fourth; an attempt that gives HTML is the last one and
\* the call returns that HTML.
C11_FailsAfterThreeAttempts ==
  /\ Len(cu.excs) <= 3
  /\ cu.pc = "nohtml" =>
       /\ Len(cu.excs) = 3 /\ cu.ret = "None"
       /\ \A i \in 1..3 : cu.excs[i] # "html"
  /\ cu.pc = "attempt" =>
       /\ Len(cu.excs) = cu.attempt /\ cu.attempt < 3
       /\ \A i \in 1..Len(cu.excs) : cu.excs[i] # "html"
  /\ \A i \in 1..Len(cu.excs) :
       cu.excs[i] = "html" => i = Len(cu.excs) /\ cu.pc \in {"finally", "rendered"}
  /\ cu.pc = "rendered" => Last(cu.excs) = "html" /\ cu.ret = "html"

\* A render call has returned None after a timeout, a WebDriver error and a
\* timeout.
C11_Witness ==
  /\ cu.pc = "nohtml"
  /\ cu.excs = <<"timeout", "webdriver", "timeout">>

\* C12: the page-load and script timeouts set in attempt n are base * n.
C12_BudgetsScaleWithAttempt ==
  \A i \in 1..Len(cu.budgets) :
    /\ cu.budgets[i].page_load = page_load_timeout * cu.budgets[i].n
    /\ cu.budgets[i].script = script_timeout * cu.budgets[i].n

\* C13: an attempt that raises an exception other than a timeout or a
\* WebDriver error is the last attempt of the call, and no backoff wait
\* follows it.
C13_OtherExceptionNotRetried ==
  \A i \in 1..Len(cu.excs) :
    cu.excs[i] = "other" =>
      /\ i = Len(cu.excs)
      /\ cu.pc # "attempt" /\ cu.after # "sleep"
      /\ Len(cu.waits) < i

C15_NoHtmlFailsWithoutAssets ==
  (cu.pc = "done" /\ cu.ret = "None") =>
    /\ cu.saved = <<>> /\ cu.lost = <<>> /\ cu.calls = <<>>
    /\ cu.status \in {"failed", "pending"}
    /\ ~cu.raised => cu.status = "failed"
    /\ cu.raised <=> cu.stored = "none"

\* A crawl_url whose render gave no HTML has returned, the page is failed.
C15_Witness ==
  cu.pc = "done" /\ cu.ret = "None" /\ cu.status = "failed" /\ cu.stored = "try"

\* The precedence class of the attribute a reference came from.
Rank(src) ==
  IF src \in {"src", "data-src"} THEN 1
  ELSE IF src = "srcset" THEN 2
  ELSE IF src = "background-image" THEN 3
  ELSE IF src = "source" THEN 4
  ELSE 5

\* C16: the rows of a page are inserted in precedence order: a row inserted
\* earlier never comes from a later class than a row inserted after it.
C16_RowsInPrecedenceOrder ==
  \A i \in 1..Len(cu.saved), j \in 1..Len(cu.saved) :
    i < j => Rank(Refs(cu.html)[cu.saved[i]].src) <= Rank(Refs(cu.html)[cu.saved[j]].src)

\* The matching occurrences of an element, counted attribute by attribute.
Occ(e) ==
  (IF e.tag = "img"
     THEN (IF is_image(e.src) THEN 1 ELSE 0) + (IF is_image(e.dsrc) THEN 1 ELSE 0)
          + Cardinality({ n \in 1..Len(e.srcset) : is_image(e.srcset[n]) })
     ELSE 0)
  + Cardinality({ n \in 1..Len(e.bg) : is_image(e.bg[n]) })
  + (IF e.tag = "source" /\ e.srcset # <<>> /\ is_image(e.srcset[1]) THEN 1 ELSE 0)
  + (IF e.tag = "a" /\ is_pdf(e.href) THEN 1 ELSE 0)

RECURSIVE Occurrences(_, _)
Occurrences(html, i) ==
  IF i > Len(html) THEN 0 ELSE Occ(html[i]) + Occurrences(html, i + 1)

\* Every loop of crawl_url ran through (none raised).
RanThrough == cu.pc = "done" /\ cu.ret = "html" /\ cu.k > Len(Refs(cu.html))

\* C17: save_asset is called once for every matching reference the loops
\* reach and inserts a row of its own each time, so after a crawl whose
\* loops ran through the rows inserted (with the inserts that failed) are as
\* many as the matching occurrences of the page, repeated URLs included.
C17_OneRowPerOccurrence ==
  /\ (cu.pc \in {"extract", "done"} /\ cu.ret = "html") =>
       /\ Len(cu.saved) + Len(cu.lost) = cu.k - 1
       /\ \A i \in 1..Len(cu.saved), j \in 1..Len(cu.saved) :
            i < j => cu.saved[i] < cu.saved[j]
  /\ RanThrough => Len(cu.saved) + Len(cu.lost) = Occurrences(cu.html, 1)

\* A crawl ran through and inserted a row for each of the occurrences of the
\* page, two of them with the same URL.
C17_Witness ==
  /\ RanThrough /\ cu.lost = <<>>
  /\ Len(cu.saved) = Occurrences(cu.html, 1)
  /\ \E i \in 1..Len(cu.saved), j \in 1..Len(cu.saved) :
       i < j /\ Refs(cu.html)[cu.saved[i]].url = Refs(cu.html)[cu.saved[j]].url

\* C18: OCR is never called for a reference whose save failed; the
\* references after it are still saved and, with an OCR processor, passed to
\* OCR; after the loops ran through every reference was saved or failed to
\* save, and the page is completed unless the commit of its status fails.
C18_SaveFailureIsolated ==
  /\ \A i \in 1..Len(cu.lost), j \in 1..Len(cu.calls) : cu.lost[i] # cu.calls[j]
  /\ cu.calls = IF cu.hasOcr THEN cu.saved ELSE <<>>
  /\ RanThrough =>
       /\ \A n \in 1..Len(Refs(cu.html)) :
            (\E i \in 1..Len(cu.saved) : cu.saved[i] = n)
              \/ (\E i \in 1..Len(cu.lost) : cu.lost[i] = n)
       /\ cu.stored = "try" => cu.status = "completed"
       /\ (cu.round = 1 /\ cu.status = "completed") => cu.stored = "try"

\* A crawl ran through with a failed save followed by a saved reference that
\* went to OCR, and the page is completed.
C18_Witness ==
  /\ RanThrough /\ cu.status = "completed" /\ cu.hasOcr
  /\ \E i \in 1..Len(cu.lost), j \in 1..Len(cu.calls) : cu.lost[i] < cu.calls[j]

\* C19: a process_pdf whose cleanup failed after the result was stored
\* returns the result and leaves the asset processed.
C19_CleanupFailureNotPropagated ==
  \A r \in RunIds :
    (ocr[r].pc = "ret" /\ ocr[r].err = "cleanup") =>
      ocr[r].ret = "result" /\ CallStatus(r) = "processed"

\* C20: a call that returns its result has stored the OCRResult row, whether
\* or not its status writes were stored.
C20_StatusWriteDoesNotMaskResult ==
  \A r \in RunIds :
    (ocr[r].pc = "ret" /\ ocr[r].ret = "result") =>
      ocr[r].rows = 1 /\ Len(asset[ocr[r].aid].rows) >= 1


\* ------------------------------------------------- claims (OCR and stores)
\* The rows of the Asset table that belong to page p.
AssetsOf(p) == { a \in AssetIds : asset[a].status # "absent" /\ asset[a].page = p }

\* An OCR call is at work on asset a.
InOcr(a) == \E r \in RunIds : ocr[r].pc # "idle" /\ ocr[r].aid = a

\* C21: a step that sets a page completed finds every asset recorded for the
\* page with the OCR pipeline invoked on it, through the entry point of its
\* type, and no invocation still at work, whichever trigger started the run.
C21_OcrInvokedPerAsset ==
  [][\A p \in Pages :
       (urlStatus[p] # "completed" /\ urlStatus'[p] = "completed") =>
         \A a \in AssetsOf(p) :
           /\ asset[a].calls >= 1
           /\ ~InOcr(a)]_vars

\* C22: when a crawl run has ended, every page it selected is completed or
\* failed: no selected page is left pending.
C22_NoSelectedPageLeftPending ==
  \A r \in RunIds :
    (run[r].pc = "done" /\ run[r].kind \in {"sched", "sync", "thread"})
      => \A p \in Range(run[r].sel) : urlStatus[p] \in UrlTerminal

\* C23: the OCRResult rows of an asset are append-only: in every step the
\* rows an asset has stay as they are, in their order, and an OCR call that
\* stores a result adds exactly one row after them, also when the asset
\* already has results.
C23_ResultsAppendOnly ==
  [][\A a \in AssetIds :
       /\ IsPrefix(asset[a].rows, asset'[a].rows)
       /\ \A r \in RunIds :
            (ocr[r].aid = a /\ ocr'[r].rows = ocr[r].rows + 1)
              => asset'[a].rows = Append(asset[a].rows, r)]_vars

\* OCR was run again on an asset that had a result: the asset has two rows,
\* the first from the crawl, the second from the request.
C23_Witness ==
  \E a \in AssetIds : Len(asset[a].rows) = 2 /\ asset[a].rows[1] # asset[a].rows[2]

\* The OCR call of run r writes a status of asset a in this step.
OcrWrites(r, a) ==
  /\ ocr[r].pc # "idle" /\ ocr[r].aid = a
  /\ Len(ocr'[r].tried) = Len(ocr[r].tried) + 1
  /\ asset'[a].status = Last(ocr'[r].tried)

\* C24: the status of an existing Asset row changes only in a step of an OCR
\* call on that asset, to the status the call writes: the scheduler, the
\* triggers, the renderer, the extractor and save_asset leave it unchanged.
C24_OnlyOcrChangesAssetStatus ==
  [][\A a \in AssetIds :
       (asset[a].status # "absent" /\ asset'[a].status # asset[a].status)
         => \E r \in RunIds : OcrWrites(r, a)]_vars

\* A page holds an asset the OCR pipeline has set processed and a second
\* asset saved by a crawl, and a scheduled run has crawled the page to its
\* end and set it completed.
C24_Witness ==
  \E a \in AssetIds, b \in AssetIds :
    /\ a < b
    /\ asset[a].status = "processed" /\ asset[b].status # "absent"
    /\ asset[a].page = asset[b].page
    /\ urlStatus[asset[a].page] = "completed"
    /\ \E r \in RunIds : /\ run[r].kind = "sched" /\ run[r].pc = "done"
                         /\ asset[a].page \in Range(run[r].sel)

\* C25: no step removes an Asset row: a row that was committed stays in the
\* store with its page and its type, whatever fails and is rolled back.
C25_AssetRowsStay ==
  [][\A a \in AssetIds :
       asset[a].status # "absent" =>
         /\ asset'[a].status # "absent"
         /\ asset'[a].page = asset[a].page
         /\ asset'[a].typ = asset[a].typ]_vars

\* An OCR call ended in its except block with a status write that failed and
\* was rolled back, and the Asset row is in the store.
C25_Witness ==
  \E r \in RunIds :
    /\ ocr[r].pc = "ret" /\ ocr[r].err # "none"
    /\ Last(ocr[r].tried) = "failed" /\ ocr[r].wrote # ocr[r].tried
    /\ asset[ocr[r].aid].status # "absent"

\* The OCR call of run r is a call of process_pdf.
PdfCall(r) == ocr[r].pc # "idle" /\ ocr[r].typ = "pdf"

\* The call of run r has returned with every status write it attempted stored,
\* on an asset no other call has worked on.
WritesStored(r) == ocr[r].pc = "ret" /\ ocr[r].wrote = ocr[r].tried /\ SoleCall(r)

\* C28: a call of process_pdf takes its steps in the order download, staging
\* upload, batch job (submit and wait), read of the outputs, persist, cleanup:
\* each step is made at most once and only after the step before it
\* succeeded.  When the staging upload fails the call submits no batch job,
\* reads no output, adds no OCRResult, writes failed as its last status and
\* returns None; the asset is failed when that write is stored.
C28_DocumentStepsInOrder ==
  \A r \in RunIds : PdfCall(r) =>
    /\ ocr[r].nDl <= 1 /\ ocr[r].nUp <= 1 /\ ocr[r].nRecog <= 1 /\ ocr[r].nRd <= 1
    /\ ocr[r].nDl = 1 => "processing" \in Range(ocr[r].tried)
    /\ ocr[r].nUp = 1 => ocr[r].nDl = 1 /\ ocr[r].dl = "200"
    /\ ocr[r].nRecog = 1 => ocr[r].nUp = 1 /\ ocr[r].up = "ok"
    /\ ocr[r].nRd = 1 => ocr[r].nRecog = 1 /\ ocr[r].job = "done"
    /\ "processed" \in Range(ocr[r].tried) => ocr[r].nRd = 1 /\ ocr[r].err \in {"none", "cleanup"}
    /\ ocr[r].pc = "cleanup" => Last(ocr[r].tried) = "processed"
    /\ ocr[r].err = "cleanup" => "processed" \in Range(ocr[r].tried)
    /\ ocr[r].ret = "result" => "processed" \in Range(ocr[r].tried) /\ ocr[r].err = "none"
    /\ (ocr[r].pc = "ret" /\ ocr[r].up = "exc") =>
         /\ ocr[r].nRecog = 0 /\ ocr[r].job = "none" /\ ocr[r].nRd = 0 /\ ocr[r].rows = 0
         /\ Last(ocr[r].tried) = "failed" /\ ocr[r].ret = "None"
         /\ WritesStored(r) => CallStatus(r) = "failed" /\ asset[ocr[r].aid].rows = <<>>

\* One call of process_pdf has gone through every step and returned its
\* result; another has returned after a failed staging upload and left the
\* asset failed.
C28_Witness ==
  \E r \in RunIds, q \in RunIds :
    /\ PdfCall(r) /\ ocr[r].pc = "ret" /\ ocr[r].ret = "result"
    /\ PdfCall(q) /\ ocr[q].pc = "ret" /\ ocr[q].up = "exc" /\ CallStatus(q) = "failed"

\* C29: a call of process_pdf whose batch job is not complete within the
\* ceiling reads no output, adds no OCRResult, writes failed as its last
\* status and returns None; the asset is failed when that write is stored.
C29_BatchTimeoutFails ==
  \A r \in RunIds : (PdfCall(r) /\ ocr[r].job = "timeout") =>
    /\ ocr[r].pc = "ret" /\ ocr[r].err = "timeout"
    /\ ocr[r].nRd = 0 /\ ocr[r].rows = 0
    /\ ocr[r].tried = <<"processing", "failed">> /\ ocr[r].ret = "None"
    /\ WritesStored(r) => CallStatus(r) = "failed" /\ asset[ocr[r].aid].rows = <<>>

\* The wait for the batch job timed out, the job wrote its outputs after
\* that, and the call has returned with the asset failed and no result.
C29_Witness ==
  \E r \in RunIds :
    /\ PdfCall(r) /\ ocr[r].pc = "ret" /\ ocr[r].job = "timeout"
    /\ "out" \in blobs[ocr[r].aid]
    /\ WritesStored(r) /\ CallStatus(r) = "failed"


\* ------------------------------------------------- claims (fetch_dom waits)
\* C30 as stated: the wait after the i-th failed attempt is 2^i seconds (2 s
\* after the first, 4 s after the second), and there is no wait after the
\* final attempt.
C30_WaitsNumberedFromOne ==
  /\ \A i \in 1..Len(cu.waits) : cu.waits[i] = 2 ^ i
  /\ Len(cu.waits) <= max_retries - 1

\* C30 amended: the wait after the i-th failed attempt is 2^(i-1) seconds,
\* the exponent being the attempt's number counted from 0 (1 s after the
\* first failed attempt, 2 s after the second); there is one wait after every
\* failed attempt but the final one, after which fetch_dom returns None at
\* once.
C30_WaitsNumberedFromZero ==
  /\ \A i \in 1..Len(cu.waits) : cu.waits[i] = 2 ^ (i - 1)
  /\ Len(cu.waits) <= max_retries - 1
  /\ cu.pc = "attempt" => Len(cu.waits) = cu.attempt /\ Len(cu.excs) = cu.attempt
  /\ (cu.pc = "finally" /\ cu.after = "sleep") =>
       Len(cu.waits) = Len(cu.excs) /\ Len(cu.excs) < max_retries
  /\ (cu.pc = "finally" /\ cu.after = "None") =>
       Len(cu.waits) = Len(cu.excs) - 1 /\ Len(cu.excs) = max_retries
  /\ cu.pc = "nohtml" => cu.waits = <<1, 2>> /\ Len(cu.excs) = max_retries

\* Every attempt has failed: fetch_dom has waited after the first and the
\* second and returned None after the third.
C30_Witness ==
  /\ cu.pc = "nohtml"
  /\ Len(cu.excs) = max_retries
  /\ Len(cu.waits) = 2

RECURSIVE Offset(_, _)
Offset(frags, i) ==
  IF i = 1 THEN 0 ELSE Offset(frags, i - 1) + Len(frags[i - 1]) + 1

\* text is the fragments in their order with one newline between neighbours.
IsJoined(text, frags) ==
  /\ Len(text) = IF frags = <<>> THEN 0 ELSE Offset(frags, Len(frags) + 1) - 1
  /\ \A i \in 1..Len(frags) :
       /\ \A n \in 1..Len(frags[i]) : text[Offset(frags, i) + n] = frags[i][n]
       /\ i < Len(frags) => text[Offset(frags, i + 1)] = "\n"

\* C26: an OCR call that has stored the status processed has persisted
\* exactly one OCRResult.  For a PDF its text is the fragments of the output
\* objects, in listing order, with a newline between neighbours, and its
\* confidence is 1.0; for an image its text is the annotation's text and its
\* confidence the first page's confidence, or 0.0 without a page.
C26_ResultOfSuccessfulCall ==
  (ocrResult.pc = "done" /\ ocrResult.status = "processed") =>
    /\ Len(ocrResult.rows) = 1
    /\ ocrResult.typ = "pdf" =>
         /\ IsJoined(ocrResult.rows[1].content, Fragments(ocrResult.outs))
         /\ ocrResult.rows[1].confidence = 100
    /\ ocrResult.typ = "image" =>
         /\ ocrResult.rows[1].content = ocrResult.text
         /\ ocrResult.rows[1].confidence = IF ocrResult.pages = <<>> THEN 0 ELSE ocrResult.pages[1]

\* A PDF call persisted the text of two output objects, one parsed and one
\* taken as raw content.
C26_Witness ==
  /\ ocrResult.pc = "done" /\ ocrResult.status = "processed" /\ ocrResult.typ = "pdf"
  /\ Len(ocrResult.outs) = 2
  /\ ocrResult.outs[1].json /\ ocrResult.outs[1].responses # <<>> /\ ~ocrResult.outs[2].json
  /\ Len(ocrResult.rows) = 1


\* ------------------------------------------------- claims (order and containment)
\* Run r is a run of the loop over the selected pages.
CrawlRun(r) == run[r].kind \in {"sched", "sync", "thread"}

\* C31: a run goes through its selection in order, one page at a time: the
\* selection stays as it was made, the position moves by one page only, and
\* only in the step that ends the crawl of the page at the position (its
\* final status write), when no OCR call of the run is at work; every asset
\* a run records belongs to the page at its position.
C31_PagesOneAfterAnother ==
  [][\A r \in RunIds : (CrawlRun(r) /\ run[r].pc # "idle") =>
       /\ run'[r].sel = run[r].sel
       /\ run[r].pc \in {"fetch", "extract", "ocr"} =>
            run[r].idx \in 1..Len(run[r].sel)
       /\ run'[r].idx # run[r].idx =>
            /\ run'[r].idx = run[r].idx + 1
            /\ run[r].pc \in {"fetch", "extract"}
            /\ ocr[r].pc = "idle" /\ ocr'[r].pc = "idle"
            /\ \A p \in Pages : urlStatus'[p] # urlStatus[p] => p = run[r].sel[run[r].idx]
            /\ asset' = asset
       /\ (run[r].pc = "extract" /\ run'[r].pc \in {"extract", "ocr"}) =>
            \A a \in AssetIds :
              (asset[a].status = "absent" /\ asset'[a].status # "absent"
                 /\ run'[r] # run[r])
                => asset'[a].page = run[r].sel[run[r].idx]]_vars

\* A run that selected two pages has ended the crawl of the first, which
\* has an asset, and is in the loops of the second.
C31_Witness ==
  \E r \in RunIds :
    /\ CrawlRun(r) /\ Len(run[r].sel) = 2 /\ run[r].idx = 2 /\ run[r].pc = "extract"
    /\ urlStatus[run[r].sel[1]] \in UrlTerminal
    /\ AssetsOf(run[r].sel[1]) # {}

\* Run r records an asset in this step.
Records(r, a) ==
  /\ CrawlRun(r) /\ run[r].pc = "extract" /\ run'[r] # run[r]
  /\ asset[a].status = "absent" /\ asset'[a].status # "absent"

\* C32: every OCR call works on an asset whose row is in the store, of the
\* type of the entry point; a run calls OCR for an asset in the step that
\* committed its row, and records an asset only when it has no OCR call at
\* work, so the call for one asset has returned before the next is recorded.
C32_CommittedBeforeOcr ==
  [][\A r \in RunIds :
       /\ ocr'[r].pc # "idle" =>
            /\ asset'[ocr'[r].aid].status # "absent"
            /\ asset'[ocr'[r].aid].typ = ocr'[r].typ
       /\ \A a \in AssetIds : Records(r, a) =>
            /\ ocr[r].pc = "idle"
            /\ ocr'[r].pc # "idle" => ocr'[r].pc = "entry" /\ ocr'[r].aid = a
       /\ (run[r].pc = "ocr" /\ run'[r].pc = "ocr") => asset'[ocr[r].aid] # NoAsset
       /\ run[r].pc = "ocr" =>
            \A a \in AssetIds : asset[a].status = "absent" /\ asset'[a].status # "absent"
              => \E q \in RunIds : q # r /\ Records(q, a)]_vars

\* A scheduled run is in the OCR call for the second asset of a page; the
\* call for the first has returned.
C32_Witness ==
  \E r \in RunIds :
    /\ run[r].kind = "sched" /\ run[r].pc = "ocr" /\ ocr[r].pc = "download"
    /\ ocr[r].aid = 2
    /\ asset[1].page = asset[2].page /\ asset[1].calls = 1
    /\ \A q \in RunIds : q # r => ocr[q].pc = "idle"

\* C33: whatever an OCR call of a crawl returns, the run goes on with the
\* next reference of the same page and the status of no page changes; and a
\* crawl whose loops run through with no failure in the step sets the page
\* completed, whatever the statuses of its assets.
C33_OcrFailureContained ==
  [][\A r \in RunIds : CrawlRun(r) =>
       /\ (run[r].pc = "ocr" /\ ocr[r].pc = "ret" /\ ocr'[r].pc = "idle") =>
            /\ run'[r].pc = "extract"
            /\ run'[r].idx = run[r].idx /\ run'[r].j = run[r].j + 1
            /\ urlStatus' = urlStatus
       /\ (run[r].pc = "extract" /\ run'[r].idx # run[r].idx /\ faults' = faults) =>
            urlStatus'[run[r].sel[run[r].idx]] = "completed"]_vars

\* The OCR call for the first asset of a page failed, the call for the
\* second stored its result, and the page is completed.
C33_Witness ==
  /\ asset[1].status = "failed" /\ asset[2].status = "processed"
  /\ asset[1].calls = 1 /\ asset[2].calls = 1
  /\ asset[1].page = asset[2].page
  /\ urlStatus[asset[1].page] = "completed"

\* C34: whenever a page is completed, every asset recorded for it is
\* processed or failed.
C34_CompletedPageHasTerminalAssets ==
  \A p \in Pages : urlStatus[p] = "completed" =>
    \A a \in AssetsOf(p) : asset[a].status \in AssetTerminal

\* C35: an asset that is processed has an OCRResult row, and the two are
\* stored together: a step that makes an asset processed adds one row to it
\* and a step that adds a row leaves the asset processed.
C35_ProcessedHasResult ==
  [][\A a \in AssetIds :
       /\ asset'[a].status = "processed" => Len(asset'[a].rows) >= 1
       /\ (asset'[a].status = "processed" /\ asset[a].status # "processed")
            => Len(asset'[a].rows) = Len(asset[a].rows) + 1
       /\ Len(asset'[a].rows) # Len(asset[a].rows)
            => /\ Len(asset'[a].rows) = Len(asset[a].rows) + 1
               /\ asset'[a].status = "processed"]_vars

\* An OCR call has returned its result; the asset is processed and has the
\* row of that call.
C35_Witness ==
  \E r \in RunIds :
    /\ ocr[r].pc = "ret" /\ ocr[r].ret = "result" /\ ocr[r].rows = 1
    /\ asset[ocr[r].aid].status = "processed"
    /\ asset[ocr[r].aid].rows = <<r>>

\* The OCR call of run r is between its download and its return.
AtWork(r) ==
  ocr[r].pc \in {"download", "recognize", "upload", "batch", "persist", "cleanup"}

\* C36: no two OCR calls are at work on the same asset at the same time.
C36_OneOcrCallPerAsset ==
  \A r \in RunIds, q \in RunIds :
    (r # q /\ AtWork(r) /\ AtWork(q)) => ocr[r].aid # ocr[q].aid

\* C37: the step that ends the crawl of a page in the loops of crawl_url
\* leaves every Asset row, every OCRResult row and every stored object as it
\* is; when one thing failed in it (a loop raised, or the commit of
\* completed failed) the page is set failed.
C37_ErrorKeepsCommittedRows ==
  [][\A r \in RunIds :
       (CrawlRun(r) /\ run[r].pc = "extract" /\ run'[r].pc \in {"fetch", "done"}) =>
         /\ asset' = asset
         /\ blobs' = blobs
         /\ faults' = faults + 1 => urlStatus'[run[r].sel[run[r].idx]] = "failed"]_vars

\* The only run so far has recorded an asset of a page, whose OCR call stored
\* a result, and an error in the loops after that has set the page failed.
C37_Witness ==
  \E r \in RunIds, a \in AssetIds :
    /\ CrawlRun(r) /\ run[r].idx >= 2
    /\ \A q \in RunIds : q # r => run[q].pc = "idle"
    /\ urlStatus[run[r].sel[1]] = "failed"
    /\ a \in AssetsOf(run[r].sel[1])
    /\ asset[a].status = "processed" /\ Len(asset[a].rows) = 1

\* C38: when a call of process_pdf has returned, no object of the asset is
\* in the bucket: neither the staged PDF nor an output of the batch job.
C38_NoObjectLeftBehind ==
  \A r \in RunIds : (PdfCall(r) /\ ocr[r].pc = "ret") => blobs[ocr[r].aid] = {}

==========================================================================
